---- MODULE Spec2Model ----
(***************************************************************************)
(* Model of the user (principal) repository of warung-backend:             *)
(*   src/src/repositories/userRepository.ts   UserRepository               *)
(*   src/migrations/001_create_users_table.sql  the users table, its       *)
(*                                              constraints and policies   *)
(*   src/unnamed/part_002                     the process-wide store client*)
(*   src/unnamed/part_001                     IUser / IUserInputDTO        *)
(*                                                                         *)
(* A repository call is three steps: the handler issues the query and      *)
(* awaits (Invoke), the store executes the statement atomically and        *)
(* answers, or fails to (StoreExecute, StoreFault), and the handler's code *)
(* after the await turns {data, error} into a returned value or a thrown   *)
(* Error (Return).                                                         *)
(*                                                                         *)
(* Before any call the loaders run (LoadSupabase, LoadDependencyInjector,   *)
(* LoadExpress, LoaderThrows): requests are served once express is loaded. *)
(*                                                                         *)
(* Left out: the created_at / updated_at columns and the updated_at        *)
(* trigger, the name index, logging.                                       *)
(***************************************************************************)
EXTENDS Integers, FiniteSets, Sequences, TLC

\* ------------------------------------------------------------------ bounds
MaxUsers == 2

\* ------------------------------------------------------------ value domains
Ids == {1, 2, 3}
\* The principals on whose behalf requests are made; NoCaller is a request
\* that carries no session (registration, login).
Tenants == {1, 2}
NoCaller == 0
Callers == Tenants \cup {NoCaller}
NoUid == 0
Emails == {"a", "A", "b"}
Names == {"n1", "n2"}
Slots == {"r1"}

\* Letter case of a login handle, as the claims on case-insensitive handles
\* read it: what lower() gives on the handles above.
Lower(e) == IF e = "A" THEN "a" ELSE e

\* A row of the users table. select('*') and select() return every column,
\* so a returned row is the row itself, password and salt included, which is
\* the shape IUser declares.
Row(i, e, n) ==
  [id |-> i, email |-> e, name |-> n, password |-> "digest", salt |-> "salt",
   role |-> "user"]

\* ------------------------------------------------------------ store client
\* auth.uid() as the store evaluates it for a query of the process-wide
\* client: the client is built once with the anon key and no user token, so
\* the value is NULL whoever the request's caller is.
AuthUid(caller) == NoUid

\* ------------------------------------------------------------- row policies
\* SQL's  auth.uid() = id  is NULL, hence not true, when auth.uid() is NULL.
\* (mutant) a SELECT policy that lets every row through
SelectPolicyOpen(uid, row) == TRUE

SelectPolicy(uid, row) == uid # NoUid /\ uid = row.id

InsertPolicy(uid, row) == uid # NoUid /\ uid = row.id

UpdatePolicyUsing(uid, row) == uid # NoUid /\ uid = row.id

UpdatePolicyCheck(uid, row) == uid # NoUid /\ uid = row.id

\* ------------------------------------------------------------ store answers
NoError == ""
PGRST116 == "PGRST116"
UniqueViolation == "23505"
PolicyViolation == "42501"
FaultCodes == {"FETCH", "57014"}

\* {data, error} of a supabase query; data is a set of at most one row,
\* the empty set standing for null.
Resp(rows, code) == [data |-> rows, error |-> code]

\* .single(): exactly one row or the PGRST116 error.
Single(rows) ==
  IF Cardinality(rows) = 1 THEN Resp(rows, NoError) ELSE Resp({}, PGRST116)

\* The rows of tbl a SELECT may see.
Visible(tbl, uid, on) ==
  IF on THEN {r \in tbl : SelectPolicy(uid, r)} ELSE tbl

\* (mutant) the table without UNIQUE on email
ConflictsIdOnly(tbl, row) ==
  \E r \in tbl : r.id = row.id

\* The table's UNIQUE(email) and PRIMARY KEY(id) constraints on adding row to tbl.
Conflicts(tbl, row) ==
  \E r \in tbl : r.email = row.email \/ r.id = row.id

\* ------------------------------------------------------- store statements
\* Each gives the table after the statement and the answer sent to the client.
Done(tbl, resp) == [tbl |-> tbl, resp |-> resp]

\* from('users').insert(userData).select().single()
\* The id is the column default, a fresh uuid. The INSERT policy is checked
\* on the new row before the constraints are, and RETURNING needs the SELECT
\* policy to pass on it; a statement that fails changes nothing.
StoreInsert(tbl, userData, fresh, uid, on) ==
  LET row == [id |-> fresh, email |-> userData.email, name |-> userData.name,
              password |-> userData.password, salt |-> userData.salt,
              role |-> "user"]
  IN  IF on /\ ~InsertPolicy(uid, row) THEN Done(tbl, Resp({}, PolicyViolation))
      ELSE IF Conflicts(tbl, row) THEN Done(tbl, Resp({}, UniqueViolation))
      ELSE IF on /\ ~SelectPolicy(uid, row) THEN Done(tbl, Resp({}, PolicyViolation))
      ELSE Done(tbl \cup {row}, Single({row}))

\* from('users').select('*').eq('email', email).single()
StoreSelectByEmail(tbl, email, uid, on) ==
  Done(tbl, Single({r \in Visible(tbl, uid, on) : r.email = email}))

\* (mutant) a select by id that answers "forbidden" for a row the policy hides
StoreSelectByIdForbidden(tbl, id, uid, on) ==
  IF \E r \in tbl \ Visible(tbl, uid, on) : r.id = id
    THEN Done(tbl, Resp({}, PolicyViolation))
  ELSE Done(tbl, Single({r \in Visible(tbl, uid, on) : r.id = id}))

\* from('users').select('*').eq('id', id).single()
StoreSelectById(tbl, id, uid, on) ==
  Done(tbl, Single({r \in Visible(tbl, uid, on) : r.id = id}))

\* The row with the columns that updateData names replaced.
ApplyPatch(row, patch) ==
  [row EXCEPT !.id = IF patch.id # 0 THEN patch.id ELSE @,
              !.email = IF patch.email # "" THEN patch.email ELSE @,
              !.name = IF patch.name # "" THEN patch.name ELSE @]

\* (mutant) an update without its .eq('id', id): every row it may touch is patched
StoreUpdateAll(tbl, id, patch, uid, on) ==
  LET seen == IF on THEN {r \in Visible(tbl, uid, on) : UpdatePolicyUsing(uid, r)}
                    ELSE tbl
      new == {ApplyPatch(r, patch) : r \in seen}
  IN  Done((tbl \ seen) \cup new, Single(new))

\* from('users').update(updateData).eq('id', id).select().single()
\* The UPDATE policy's USING (and the SELECT policy) pick the rows the
\* statement may touch, its WITH CHECK is tested on the new row.
StoreUpdate(tbl, id, patch, uid, on) ==
  LET seen == IF on THEN {r \in Visible(tbl, uid, on) : UpdatePolicyUsing(uid, r)}
                    ELSE tbl
      hit == {r \in seen : r.id = id}
  IN  IF hit = {} THEN Done(tbl, Single({}))
      ELSE LET old == CHOOSE r \in hit : TRUE
               new == ApplyPatch(old, patch)
           IN  IF on /\ ~UpdatePolicyCheck(uid, new)
                 THEN Done(tbl, Resp({}, PolicyViolation))
               ELSE IF Conflicts(tbl \ {old}, new)
                 THEN Done(tbl, Resp({}, UniqueViolation))
               ELSE IF on /\ ~SelectPolicy(uid, new)
                 THEN Done(tbl, Resp({}, PolicyViolation))
               ELSE Done((tbl \ {old}) \cup {new}, Single({new}))

\* error.message of an answer.
Message(code) ==
  CASE code = PGRST116 -> "JSON object requested, multiple (or no) rows returned"
    [] code = UniqueViolation -> "duplicate key value violates unique constraint"
    [] code = PolicyViolation -> "new row violates row-level security policy"
    [] code = "FETCH" -> "fetch failed"
    [] code = "57014" -> "canceling statement due to statement timeout"
    [] OTHER -> ""

\* ------------------------------------------------------ repository methods
\* What a method hands its caller: a returned value (data: one row, or the
\* empty set for null) or a thrown Error.
Returned(rows) == [kind |-> "return", data |-> rows, name |-> "", message |-> "", detail |-> ""]

Thrown(prefix, code) ==
  [kind |-> "throw", data |-> {}, name |-> "Error", message |-> prefix, detail |-> Message(code)]

NoOutcome == [kind |-> "none", data |-> {}, name |-> "", message |-> "", detail |-> ""]

\* create, after the await
CreateResult(resp) ==
  IF resp.error # NoError THEN Thrown("Failed to create user", resp.error)
  ELSE Returned(resp.data)

\* (mutant) findByEmail that takes every error for "no row"
FindByEmailSwallow(resp) == Returned(resp.data)

\* findByEmail, after the await
FindByEmailResult(resp) ==
  IF resp.error # NoError /\ resp.error # PGRST116
    THEN Thrown("Failed to find user by email", resp.error)
  ELSE Returned(resp.data)

\* findById, after the await
FindByIdResult(resp) ==
  IF resp.error # NoError /\ resp.error # PGRST116
    THEN Thrown("Failed to find user by id", resp.error)
  ELSE Returned(resp.data)

\* update, after the await
UpdateResult(resp) ==
  IF resp.error # NoError THEN Thrown("Failed to update user", resp.error)
  ELSE Returned(resp.data)

\* ------------------------------------------------------------------- state
VARIABLES
  users,   \* the rows of the users table
  rls,     \* whether the table's row level security is enabled
  req,     \* per request slot: the repository call in progress
  boot     \* the loaders: phase to run, client, container, phases completed

vars == <<users, rls, req, boot>>

NoUser == [name |-> "", email |-> "", password |-> "", salt |-> ""]
NoPatch == [id |-> 0, email |-> "", name |-> ""]
NoResp == Resp({}, NoError)

\* create's argument, IUserInputDTO & {salt, password}
UserInputs ==
  {[name |-> "n1", email |-> e, password |-> "digest", salt |-> "salt"] : e \in Emails}

\* update's argument, Partial<IUser>: one column named
Patches ==
  {[NoPatch EXCEPT !.id = i] : i \in Ids}
  \cup {[NoPatch EXCEPT !.email = e] : e \in Emails}
  \cup {[NoPatch EXCEPT !.name = n] : n \in Names}

Idle ==
  [pc |-> "idle", op |-> "", caller |-> NoCaller, id |-> 0, email |-> "",
   user |-> NoUser, patch |-> NoPatch, resp |-> NoResp, out |-> NoOutcome]

Call(op, caller, id, email, user, patch) ==
  [pc |-> "awaiting", op |-> op, caller |-> caller, id |-> id, email |-> email,
   user |-> user, patch |-> patch, resp |-> NoResp, out |-> NoOutcome]

\* Tables the store can hold when the process starts.
SeedTables ==
  {{}, {Row(1, "a", "n1")}, {Row(1, "a", "n1"), Row(2, "b", "n1")}}

\* What dependencyInjector registers in the container.
Registered == {"supabase", "userRepository", "logger", "emailClient", "emailDomain"}

\* The loaders before the first phase, and after the last.
BootStart ==
  [pc |-> "supabase", client |-> FALSE, container |-> {}, phases |-> <<>>]

Booted ==
  [pc |-> "ready", client |-> TRUE, container |-> Registered,
   phases |-> <<"supabase", "dependencyInjector", "express">>]

Init ==
  /\ users \in SeedTables
  /\ rls \in BOOLEAN
  /\ req = [s \in Slots |-> Idle]
  /\ boot = BootStart

\* Express is loaded: routes call the repository.
Serving == boot.pc = "ready"

Free(s) == req[s].pc \in {"idle", "done"}

\* ----------------------------------------------------------------- loaders
\* const supabaseClient = await supabaseLoader()
LoadSupabase ==
  /\ boot.pc = "supabase"
  /\ boot' = [boot EXCEPT !.pc = "dependencyInjector", !.client = TRUE,
                          !.phases = Append(@, "supabase")]
  /\ UNCHANGED <<users, rls, req>>

\* await dependencyInjectorLoader({ supabaseClient })
LoadDependencyInjector ==
  /\ boot.pc = "dependencyInjector"
  /\ boot' = [boot EXCEPT !.pc = "express", !.container = Registered,
                          !.phases = Append(@, "dependencyInjector")]
  /\ UNCHANGED <<users, rls, req>>

\* await expressLoader({ app: expressApp })
LoadExpress ==
  /\ boot.pc = "express"
  /\ boot' = [boot EXCEPT !.pc = "ready", !.phases = Append(@, "express")]
  /\ UNCHANGED <<users, rls, req>>

\* The phase to run throws: the loader's promise rejects and no later phase
\* runs. dependencyInjector throws before its first Container.set (new
\* Mailgun) or at the email client, after three of them.
LoaderThrows ==
  /\ boot.pc \in {"supabase", "dependencyInjector", "express"}
  /\ \E part \in {{}, {"supabase", "userRepository", "logger"}} :
       /\ part # {} => boot.pc = "dependencyInjector"
       /\ boot' = [boot EXCEPT !.pc = "failed", !.container = part]
  /\ UNCHANGED <<users, rls, req>>

\* ----------------------------------------------------------------- actions
\* The creates that await the store.
PendingCreates == {t \in DOMAIN req : req[t].pc = "awaiting" /\ req[t].op = "create"}

\* create(userData) up to its await. Registration has no caller identity.
\* (The table, with the inserts under way, is kept within MaxUsers rows.)
InvokeCreate(s) ==
  /\ Serving
  /\ Free(s)
  /\ Cardinality(users) + Cardinality(PendingCreates) < MaxUsers
  /\ \E u \in UserInputs :
       req' = [req EXCEPT ![s] = Call("create", NoCaller, 0, "", u, NoPatch)]
  /\ UNCHANGED <<users, rls, boot>>

\* findByEmail(email) up to its await
InvokeFindByEmail(s) ==
  /\ Serving
  /\ Free(s)
  /\ \E c \in Callers, e \in Emails :
       req' = [req EXCEPT ![s] = Call("findByEmail", c, 0, e, NoUser, NoPatch)]
  /\ UNCHANGED <<users, rls, boot>>

\* findById(id) up to its await
InvokeFindById(s) ==
  /\ Serving
  /\ Free(s)
  /\ \E c \in Callers, i \in Ids :
       req' = [req EXCEPT ![s] = Call("findById", c, i, "", NoUser, NoPatch)]
  /\ UNCHANGED <<users, rls, boot>>

\* update(id, updateData) up to its await
InvokeUpdate(s) ==
  /\ Serving
  /\ Free(s)
  /\ \E c \in Callers, i \in Ids, p \in Patches :
       req' = [req EXCEPT ![s] = Call("update", c, i, "", NoUser, p)]
  /\ UNCHANGED <<users, rls, boot>>

\* The statement of request r run on tbl; fresh is the uuid an insert draws.
Execute(tbl, r, fresh, on) ==
  CASE r.op = "create" -> StoreInsert(tbl, r.user, fresh, AuthUid(r.caller), on)
    [] r.op = "findByEmail" -> StoreSelectByEmail(tbl, r.email, AuthUid(r.caller), on)
    [] r.op = "findById" -> StoreSelectById(tbl, r.id, AuthUid(r.caller), on)
    [] r.op = "update" -> StoreUpdate(tbl, r.id, r.patch, AuthUid(r.caller), on)

\* The store runs the awaited statement and answers.
StoreExecute(s) ==
  /\ req[s].pc = "awaiting"
  /\ \E fresh \in Ids \ {r.id : r \in users} :
       LET d == Execute(users, req[s], fresh, rls)
       IN  /\ users' = d.tbl
           /\ req' = [req EXCEPT ![s].pc = "answered", ![s].resp = d.resp]
  /\ UNCHANGED <<rls, boot>>

\* The store does not run the statement: the client gets an error instead
\* (the connection fails, the statement times out).
StoreFault(s) ==
  /\ req[s].pc = "awaiting"
  /\ \E code \in FaultCodes :
       req' = [req EXCEPT ![s].pc = "answered", ![s].resp = Resp({}, code)]
  /\ UNCHANGED <<users, rls, boot>>

\* The store runs the statement and the connection fails before the answer
\* arrives: the client gets the fetch error, the statement has taken effect.
StoreReplyLost(s) ==
  /\ req[s].pc = "awaiting"
  /\ \E fresh \in Ids \ {r.id : r \in users} :
       LET d == Execute(users, req[s], fresh, rls)
       IN  /\ users' = d.tbl
           /\ req' = [req EXCEPT ![s].pc = "answered", ![s].resp = Resp({}, "FETCH")]
  /\ UNCHANGED <<rls, boot>>

\* The method's result from the answer.
Result(op, resp) ==
  CASE op = "create" -> CreateResult(resp)
    [] op = "findByEmail" -> FindByEmailResult(resp)
    [] op = "findById" -> FindByIdResult(resp)
    [] op = "update" -> UpdateResult(resp)

\* The handler resumes after its await and returns or throws.
Return(s) ==
  /\ req[s].pc = "answered"
  /\ req' = [req EXCEPT ![s].pc = "done", ![s].out = Result(req[s].op, req[s].resp)]
  /\ UNCHANGED <<users, rls, boot>>

Next ==
  \/ LoadSupabase
  \/ LoadDependencyInjector
  \/ LoadExpress
  \/ LoaderThrows
  \/ \E s \in Slots :
    \/ InvokeCreate(s)
    \/ InvokeFindByEmail(s)
    \/ InvokeFindById(s)
    \/ InvokeUpdate(s)
    \/ StoreExecute(s)
    \/ StoreFault(s)
    \/ StoreReplyLost(s)
    \/ Return(s)

Spec == Init /\ [][Next]_vars

\* The event loop runs a handler's continuation once its awaited promise has
\* settled; nothing makes the store answer.
FairSpec == Spec /\ \A s \in Slots : WF_vars(Return(s))

\* Two requests in flight at once, both registrations: the process is up,
\* and the creates of the two requests interleave at their awaits.
RaceSlots == {"r1", "r2"}

RaceInit ==
  /\ users \in SeedTables
  /\ rls \in BOOLEAN
  /\ req = [s \in RaceSlots |-> Idle]
  /\ boot = Booted

RaceNext ==
  \E s \in RaceSlots :
    \/ InvokeCreate(s)
    \/ StoreExecute(s)
    \/ StoreFault(s)
    \/ StoreReplyLost(s)
    \/ Return(s)

RaceSpec == RaceInit /\ [][RaceNext]_vars

\* ------------------------------------------------------------ vocabulary
Lookups == {"findByEmail", "findById"}

Finished(s) == req[s].pc = "done"

\* The step in which request s gets its answer (from StoreExecute, StoreFault
\* or StoreReplyLost).
Answered(s) == req[s].pc = "awaiting" /\ req'[s].pc = "answered"

\* The rows of tbl that request r addresses.
Target(tbl, r) ==
  {w \in tbl : IF r.op = "findByEmail" THEN w.email = r.email ELSE w.id = r.id}

\* The rows of tbl the row policy keeps from a query of caller c.
Hidden(tbl, c) == tbl \ Visible(tbl, AuthUid(c), rls)

\* ----------------------------------------------------------------- claims

\* C1: with the row policies enabled, a finished findByEmail or findById made
\* for tenant A that addresses a row owned by another tenant B returns the
\* empty result (null): never the row, and it throws only when the store
\* failed to run the query, as it does for a row that does not exist.
C1_ScopedLookup ==
  \A s \in Slots :
    ( /\ rls
      /\ Finished(s)
      /\ req[s].op \in Lookups
      /\ req[s].caller \in Tenants
      /\ \E w \in Target(users, req[s]) : w.id # req[s].caller )
    => \/ req[s].out = Returned({})
       \/ req[s].out.kind = "throw" /\ req[s].resp.error \in FaultCodes

\* Tenant 1 has looked up the row of tenant 2 under the row policies and got null.
C1_Witness ==
  \E s \in Slots :
    /\ rls
    /\ Finished(s)
    /\ req[s].op = "findById"
    /\ req[s].caller = 1
    /\ req[s].id = 2
    /\ \E w \in users : w.id = 2
    /\ req[s].out = Returned({})

\* C2: by a tenant filter the repository itself adds, a finished call made for
\* tenant A reads and updates no row but A's own, with the row policies
\* disabled as well: a lookup returns only a row whose id is A, and an
\* update that went through was addressed to A's own id.
C2_RepositoryFilter ==
  \A s \in Slots :
    (Finished(s) /\ req[s].caller \in Tenants /\ req[s].out.data # {})
    => /\ req[s].op \in Lookups => \A w \in req[s].out.data : w.id = req[s].caller
       /\ req[s].op = "update" => req[s].id = req[s].caller

\* C3: the value a finished create, findByEmail, findById or update returns
\* holds neither the password digest nor the salt.
C3_NoDigestReturned ==
  \A s \in Slots :
    Finished(s) =>
      \A w \in req[s].out.data :
        "password" \notin DOMAIN w /\ "salt" \notin DOMAIN w

\* C4: under the row policies, a create (no caller identity) whose login
\* handle is not in the table, and which the store does run, succeeds, and
\* a findByEmail of that handle run next returns the created row.
C4_RegistrationRoundTrip ==
  [][\A s \in Slots :
       ( /\ rls
         /\ Answered(s)
         /\ req[s].op = "create"
         /\ req[s].caller = NoCaller
         /\ req'[s].resp.error \notin FaultCodes
         /\ ~ \E w \in users : w.email = req[s].user.email )
       => /\ CreateResult(req'[s].resp).kind = "return"
          /\ CreateResult(req'[s].resp).data # {}
          /\ FindByEmailResult(
               StoreSelectByEmail(users', req[s].user.email, AuthUid(NoCaller), rls).resp
             ).data = CreateResult(req'[s].resp).data
    ]_vars

\* C5: a create whose login handle is already in the table fails (it throws),
\* and the step in which it is answered leaves the table as it was.
C5_DuplicateCreateFails ==
  [][\A s \in Slots :
       ( /\ Answered(s)
         /\ req[s].op = "create"
         /\ \E w \in users : w.email = req[s].user.email )
       => /\ CreateResult(req'[s].resp).kind = "throw"
          /\ users' = users
    ]_vars

\* A create of a handle the table holds has thrown on the unique constraint.
C5_Witness ==
  \E s \in Slots :
    /\ Finished(s)
    /\ req[s].op = "create"
    /\ req[s].resp.error = UniqueViolation
    /\ req[s].out.kind = "throw"
    /\ \E w \in users : w.email = req[s].user.email

\* C6: a finished findByEmail or findById returns null, without throwing, when
\* the store answered that no row matched (PGRST116); it returns null in that
\* case only; and every other error of the store is thrown.
C6_EmptyResultOnlyOnNoRow ==
  \A s \in Slots :
    (Finished(s) /\ req[s].op \in Lookups) =>
      /\ req[s].resp.error = PGRST116 => req[s].out = Returned({})
      /\ req[s].out = Returned({}) => req[s].resp.error = PGRST116
      /\ req[s].resp.error \notin {NoError, PGRST116} => req[s].out.kind = "throw"

\* A lookup of a handle that no row has returned null.
C6_Witness ==
  \E s \in Slots :
    /\ ~rls
    /\ Finished(s)
    /\ req[s].op = "findByEmail"
    /\ ~ \E w \in users : w.email = req[s].email
    /\ req[s].resp.error = PGRST116
    /\ req[s].out = Returned({})

\* The outcome the taxonomy gives an error of the store.
Taxonomy(code) ==
  CASE code = PGRST116 -> "NotFound"
    [] code = UniqueViolation -> "Conflict"
    [] OTHER -> "StoreUnavailable"

\* C7: a finished call that failed reports NotFound when the single-row
\* statement matched no row, Conflict when a unique constraint was violated
\* and StoreUnavailable otherwise.
C7_ErrorTaxonomy ==
  \A s \in Slots :
    (Finished(s) /\ req[s].out.kind = "throw") =>
      req[s].out.name = Taxonomy(req[s].resp.error)

\* C8: no two rows have login handles that are equal ignoring letter case, and
\* (row policies aside) a finished findByEmail returns the row whose handle
\* equals the one asked for ignoring letter case.
C8_CaseInsensitiveHandles ==
  /\ \A v, w \in users : Lower(v.email) = Lower(w.email) => v = w
  /\ \A s \in Slots :
       ( /\ ~rls
         /\ Finished(s)
         /\ req[s].op = "findByEmail"
         /\ req[s].resp.error \notin FaultCodes )
       => \A w \in users :
            Lower(w.email) = Lower(req[s].email) => req[s].out.data = {w}

\* C9: the answer findByEmail, findById or update get when the store runs the
\* statement is the one they get on any table that lacks some of the rows the
\* row policy keeps from the caller: a hidden row and a missing row give the
\* same result or the same error.
C9_HiddenAsAbsent ==
  [][\A s \in Slots :
       ( /\ Answered(s)
         /\ req[s].op \in Lookups \cup {"update"}
         /\ req'[s].resp.error \notin FaultCodes )
       => \A D \in SUBSET Hidden(users, req[s].caller) :
            Result(req[s].op, req'[s].resp)
              = Result(req[s].op, Execute(users \ D, req[s], 0, rls).resp)
    ]_vars

\* An update addressed to a row the policy hides has thrown the no-row error.
C9_Witness ==
  \E s \in Slots :
    /\ rls
    /\ Finished(s)
    /\ req[s].op = "update"
    /\ \E w \in Hidden(users, req[s].caller) : w.id = req[s].id
    /\ req[s].resp.error = PGRST116
    /\ req[s].out = Thrown("Failed to update user", PGRST116)

\* C10: every call that awaits the store is finished eventually, whether or
\* not the store answers.
C10_CallsComplete ==
  \A s \in Slots : (req[s].pc = "awaiting") ~> Finished(s)

\* C11: the step in which an update is answered, whatever its updateData,
\* leaves every row with the identifier it had: the identifiers of the table
\* are the same after it as before, none lost and none new.
C11_IdentifierImmutable ==
  [][\A s \in Slots :
       (Answered(s) /\ req[s].op = "update")
       => {w.id : w \in users'} = {w.id : w \in users}
    ]_vars

\* The phases of start-up, in the order the documentation gives them.
DocumentedPhases == <<"supabase", "dependencyInjector", "jobs", "express">>

\* The phases that have completed.
Loaded == {boot.phases[i] : i \in 1..Len(boot.phases)}

\* C12: start-up completes its phases in the documented order, supabase,
\* dependencyInjector, jobs, express; express is loaded only with the store
\* client created and registered in the container; and after a phase has
\* thrown express is not loaded.
C12_LoaderOrder ==
  /\ boot.phases = SubSeq(DocumentedPhases, 1, Len(boot.phases))
  /\ "express" \in Loaded => boot.client /\ "supabase" \in boot.container
  /\ boot.pc = "failed" => "express" \notin Loaded

\* C13: when two creates of the same login handle, both run by the store,
\* have finished, one of them at most has returned a row, one at least has
\* thrown, and the table holds exactly one row with that handle.
C13_ConcurrentCreate ==
  \A s, t \in RaceSlots :
    ( /\ s # t
      /\ Finished(s) /\ req[s].op = "create"
      /\ Finished(t) /\ req[t].op = "create"
      /\ req[s].user.email = req[t].user.email
      /\ req[s].resp.error \notin FaultCodes
      /\ req[t].resp.error \notin FaultCodes )
    => /\ ~(req[s].out.kind = "return" /\ req[t].out.kind = "return")
       /\ req[s].out.kind = "throw" \/ req[t].out.kind = "throw"
       /\ Cardinality({w \in users : w.email = req[s].user.email}) = 1

\* C14 as claimed: the step in which a call is answered changes no row if the
\* call is findByEmail or findById, changes no row but the one whose id is
\* the id given if it is update, and changes no row at all if the update
\* fails, that is, is answered with an error.
C14_UpdateFrameAnyError ==
  [][\A s \in Slots :
       Answered(s) =>
         /\ req[s].op \in Lookups => users' = users
         /\ req[s].op = "update" =>
              /\ {w \in users : w.id # req[s].id} \subseteq users'
              /\ Cardinality(users' \ users) <= 1
              /\ Cardinality(users') = Cardinality(users)
         /\ (req[s].op = "update" /\ req'[s].resp.error # NoError) => users' = users
    ]_vars

\* C14, amended: as above, but an update leaves every row unchanged when it
\* fails with an error other than the connection's (no row matched, the
\* store rejected or cancelled the statement); when the connection fails the
\* statement may have run, and then only the row of the id given has changed.
C14_UpdateFrame ==
  [][\A s \in Slots :
       Answered(s) =>
         /\ req[s].op \in Lookups => users' = users
         /\ req[s].op = "update" =>
              /\ {w \in users : w.id # req[s].id} \subseteq users'
              /\ Cardinality(users' \ users) <= 1
              /\ Cardinality(users') = Cardinality(users)
         /\ (req[s].op = "update" /\ req'[s].resp.error \notin {NoError, "FETCH"})
              => users' = users
    ]_vars

\* An update has returned the row it changed while the table holds another
\* row, of another id.
C14_Witness ==
  \E s \in Slots :
    /\ Finished(s)
    /\ req[s].op = "update"
    /\ req[s].out.kind = "return"
    /\ req[s].out.data \subseteq users
    /\ \E w \in users : w.id # req[s].id /\ w \notin req[s].out.data

====
